---- MODULE Spec2Model ----
(***************************************************************************)
(* dowel.logger.Logger: capability-based dispatch of logged values to the  *)
(* registered LogOutputs, the output registry, the prefix stack and the    *)
(* warn-once bookkeeping (src/src/dowel/logger.py).                        *)
(*                                                                         *)
(* Strings are sequences of one-character strings.  Python objects are     *)
(* named by identifiers; TypeOf gives the class of each and Bases the      *)
(* class hierarchy, so isinstance is computed along the inheritance chain. *)
(***************************************************************************)
EXTENDS Integers, Sequences, FiniteSets, TLC

\* ---------------------------------------------------------------- bounds
MaxOutputs == 2
MaxPrefixes == 2
MaxScopes == 2
EmitCap == 2
MaxRecords == 3

\* ------------------------------------------------------- python objects
\* Class hierarchy: A, C subclass LogOutput directly, B subclasses A.
\* LogOutput is an abc.ABC, so the class objects are instances of ABCMeta.
Bases ==
  [A |-> "LogOutput", B |-> "A", C |-> "LogOutput", LogOutput |-> "ABC",
   ABC |-> "object", ABCMeta |-> "type", type |-> "object",
   str |-> "object", int |-> "object", bool |-> "int", object |-> "object"]

RECURSIVE Mro(_)
Mro(c) == IF c = "object" THEN {"object"} ELSE {c} \cup Mro(Bases[c])

\* Registered-output candidates, other arguments callers may pass to
\* add_output / reset_output, and logged values.
OutputObjects == {"a1", "a2", "b1", "c1"}
TypeObjects == {"clsA"}
OtherObjects == {"str1", "obj1"}
Values == {"s", "t"}

TypeOf ==
  [a1 |-> "A", a2 |-> "A", b1 |-> "B", c1 |-> "C", clsA |-> "ABCMeta",
   str1 |-> "str", obj1 |-> "object", s |-> "str", t |-> "bool"]

OutputTypes == {"A", "B", "C", "LogOutput"}

isinstance(x, T) == T \in Mro(TypeOf[x])

\* isinstance(value, <tuple of types>)
isinstance_tuple(x, Ts) == \E T \in Ts : isinstance(x, T)

\* type(value).__name__
type_name(x) == TypeOf[x]

\* ----------------------------------------------------------- LogOutput
\* types_accepted: LogOutput's default is (), subclasses override it.
types_accepted(output) ==
  CASE TypeOf[output] = "A" -> {"str"}
    [] TypeOf[output] = "B" -> {"int"}
    [] TypeOf[output] = "C" -> {"str", "int"}
    [] OTHER -> {}

\* keys_accepted: a pattern is a literal the key must start with, optionally
\* followed by '$'.  LogOutput's default is r'^$' (kept by C); A uses r'^'
\* as CsvOutput does; B uses r'a'.
keys_accepted(output) ==
  CASE TypeOf[output] = "A" -> [lit |-> <<>>, dollar |-> FALSE]
    [] TypeOf[output] = "B" -> [lit |-> <<"a">>, dollar |-> FALSE]
    [] OTHER -> [lit |-> <<>>, dollar |-> TRUE]

\* re.match(pattern, key): anchored at the start of key only; '$' matches
\* at the end of the key or just before a final newline.
re_match(pattern, key) ==
  /\ Len(key) >= Len(pattern.lit)
  /\ SubSeq(key, 1, Len(pattern.lit)) = pattern.lit
  /\ pattern.dollar =>
       LET rest == SubSeq(key, Len(pattern.lit) + 1, Len(key))
       IN  rest = <<>> \/ rest = <<"\n">>

Keys == {<<>>, <<"a", "x">>}
PrefixStrings == {<<"a">>, <<"b">>}

\* ------------------------------------------------------------ messages
NoOutputsMsg == <<"No outputs have been added to the logger.">>
UnacceptedMsg(tn) ==
  <<"Log data of type ", tn, " was not accepted by any output">>
Messages == {NoOutputsMsg} \cup {UnacceptedMsg(type_name(v)) : v \in Values}

VARIABLES
  outputs,           \* Logger._outputs
  prefixes,          \* Logger._prefixes
  prefix_str,        \* Logger._prefix_str
  warned_once,       \* Logger._warned_once
  disable_warnings,  \* Logger._disable_warnings
  scopes,            \* the active `with logger.prefix(p)` blocks, innermost last
  left,              \* the block the last operation left, if it left one
  pre,               \* the Logger's fields before the last operation
  op,                \* the last operation and its arguments
  raised,            \* the exception the last operation raised, or "none"
  ret,               \* the value the last operation returned
  calls,             \* the output.record calls the last operation made
  warn_calls,        \* the messages the last operation passed to _warn
  emitted,           \* the messages the last operation gave to warnings.warn
  emit_count,        \* warnings.warn calls per message so far (up to EmitCap)
  dumps,             \* the output.dump calls the last operation made
  closes,            \* the output.close calls the last operation made
  broken,            \* the outputs whose record and dump raise OSError
  csv,               \* a CsvOutput: its fields and its TabularInput
  hash_layout,       \* how this process's hashes order a set of two keys
  csv_pre,           \* the CsvOutput before its last call
  csv_op,            \* the last CsvOutput call and its arguments
  csv_written,       \* the lines the last CsvOutput call wrote
  csv_warn_calls,    \* the messages the last CsvOutput call passed to _warn
  csv_emitted,       \* the messages it gave to warnings.warn
  csv_log,           \* the record calls since the last written row
  csv_seen,          \* the key sets of the rows written off the header
  csv_headers        \* the header lines written so far

logger_vars ==
  <<outputs, prefixes, prefix_str, warned_once, disable_warnings, scopes,
    left, pre, op, raised, ret, calls, warn_calls, emitted, emit_count,
    dumps, closes, broken>>

csv_vars ==
  <<csv, hash_layout, csv_pre, csv_op, csv_written, csv_warn_calls,
    csv_emitted, csv_log, csv_seen, csv_headers>>

vars == <<logger_vars, csv_vars>>

\* The Logger object as a record of its fields.
Self ==
  [outputs |-> outputs, prefixes |-> prefixes, prefix_str |-> prefix_str,
   warned_once |-> warned_once, disable_warnings |-> disable_warnings]

\* Logger.__init__
LoggerInit ==
  [outputs |-> <<>>, prefixes |-> <<>>, prefix_str |-> <<>>,
   warned_once |-> {}, disable_warnings |-> FALSE]

\* What a method call did: the Logger afterwards, and what the caller and
\* the outputs saw.
Outcome(L, exc, rv, recs, wcalls, emits) ==
  [self |-> L, raised |-> exc, ret |-> rv, calls |-> recs,
   warn_calls |-> wcalls, emitted |-> emits, dumps |-> <<>>,
   closes |-> <<>>]

Quiet(L) == Outcome(L, "none", "None", <<>>, <<>>, <<>>)
Raise(L, exc) == Outcome(L, exc, "None", <<>>, <<>>, <<>>)

\* ''.join(list of strings)
RECURSIVE join(_)
join(ss) == IF ss = <<>> THEN <<>> ELSE Head(ss) \o join(Tail(ss))

\* ------------------------------------------------------ Logger methods
\* Logger._warn: warn unless disabled or already warned; always remember msg.
_warn_ignore_disabled(L, msg) ==
  [self |-> [L EXCEPT !.warned_once = @ \cup {msg}],
   emit |-> msg \notin L.warned_once]

_warn_no_dedup(L, msg) ==
  [self |-> [L EXCEPT !.warned_once = @ \cup {msg}],
   emit |-> ~L.disable_warnings]

_warn(L, msg) ==
  [self |-> [L EXCEPT !.warned_once = @ \cup {msg}],
   emit |-> (~L.disable_warnings /\ msg \notin L.warned_once)]

\* output.record(...) / output.dump(...) raises: the Logger catches nothing.
record_raises(output) == output \in broken

dump_raises(output) == output \in broken

\* The dispatch test of logkv's loop.
accepts_type_only(output, key, value) ==
  isinstance_tuple(value, types_accepted(output))

accepts(output, key, value) ==
  /\ isinstance_tuple(value, types_accepted(output))
  /\ re_match(keys_accepted(output), key)

\* logkv's for loop from entry i on; acc carries the record calls made so
\* far and at_least_one_logged.
RECURSIVE logkv_loop_last_wins(_, _, _, _, _)
logkv_loop_last_wins(L, key, value, i, acc) ==
  IF i > Len(L.outputs) THEN acc
  ELSE LET output == L.outputs[i]
           call == [output |-> output, key |-> key,
                    value |-> value, prefix |-> L.prefix_str]
       IN  IF accepts(output, key, value)
           THEN IF record_raises(output)
                THEN [acc EXCEPT !.calls = Append(@, call),
                                 !.raised = "OSError"]
                ELSE logkv_loop_last_wins(L, key, value, i + 1,
                       [acc EXCEPT !.calls = Append(@, call),
                                   !.at_least_one_logged = TRUE])
           ELSE logkv_loop_last_wins(L, key, value, i + 1,
                  [acc EXCEPT !.at_least_one_logged = FALSE])

RECURSIVE logkv_loop_skip_failed(_, _, _, _, _)
logkv_loop_skip_failed(L, key, value, i, acc) ==
  IF i > Len(L.outputs) THEN acc
  ELSE LET output == L.outputs[i]
           call == [output |-> output, key |-> key,
                    value |-> value, prefix |-> L.prefix_str]
       IN  IF accepts(output, key, value)
           THEN logkv_loop_skip_failed(L, key, value, i + 1,
                  [acc EXCEPT !.calls = Append(@, call),
                              !.at_least_one_logged = TRUE])
           ELSE logkv_loop_skip_failed(L, key, value, i + 1, acc)

RECURSIVE logkv_loop(_, _, _, _, _)
logkv_loop(L, key, value, i, acc) ==
  IF i > Len(L.outputs) THEN acc
  ELSE LET output == L.outputs[i]
           call == [output |-> output, key |-> key,
                    value |-> value, prefix |-> L.prefix_str]
       IN  IF accepts(output, key, value)
           THEN IF record_raises(output)
                THEN [acc EXCEPT !.calls = Append(@, call),
                                 !.raised = "OSError"]
                ELSE logkv_loop(L, key, value, i + 1,
                       [acc EXCEPT !.calls = Append(@, call),
                                   !.at_least_one_logged = TRUE])
           ELSE logkv_loop(L, key, value, i + 1, acc)

\* The loop's variables before its first iteration.
LoopStart ==
  [calls |-> <<>>, at_least_one_logged |-> FALSE, raised |-> "none"]

\* Logger.logkv
logkv_no_empty_check(L, key, value) ==
  LET loop == logkv_loop(L, key, value, 1, LoopStart)
      msg == UnacceptedMsg(type_name(value))
      w == _warn(L, msg)
  IN  IF loop.raised # "none"
      THEN Outcome(L, loop.raised, "None", loop.calls, <<>>, <<>>)
      ELSE IF loop.at_least_one_logged
      THEN Outcome(L, "none", "None", loop.calls, <<>>, <<>>)
      ELSE Outcome(w.self, "none", "None", loop.calls, <<msg>>,
                   IF w.emit THEN <<msg>> ELSE <<>>)

logkv(L, key, value) ==
  LET w1 == IF L.outputs = <<>>
            THEN _warn(L, NoOutputsMsg)
            ELSE [self |-> L, emit |-> FALSE]
      wc1 == IF L.outputs = <<>> THEN <<NoOutputsMsg>> ELSE <<>>
      em1 == IF w1.emit THEN <<NoOutputsMsg>> ELSE <<>>
      loop == logkv_loop(w1.self, key, value, 1, LoopStart)
      msg == UnacceptedMsg(type_name(value))
      w2 == _warn(w1.self, msg)
  IN  IF loop.raised # "none"
      THEN Outcome(w1.self, loop.raised, "None", loop.calls, wc1, em1)
      ELSE IF loop.at_least_one_logged
      THEN Outcome(w1.self, "none", "None", loop.calls, wc1, em1)
      ELSE Outcome(w2.self, "none", "None", loop.calls,
                   Append(wc1, msg),
                   IF w2.emit THEN Append(em1, msg) ELSE em1)

\* Logger.log
log(L, value) == logkv(L, <<>>, value)

\* Logger.add_output
add_output_unchecked(L, output) ==
  Quiet([L EXCEPT !.outputs = Append(@, output)])

add_output(L, output) ==
  IF isinstance(output, "type") THEN Raise(L, "ValueError")
  ELSE IF ~isinstance(output, "LogOutput") THEN Raise(L, "ValueError")
  ELSE Quiet([L EXCEPT !.outputs = Append(@, output)])

\* Logger.remove_all
remove_all_closing(L) ==
  [Quiet([L EXCEPT !.outputs = <<>>]) EXCEPT
     !.closes = [i \in 1..Len(L.outputs) |-> L.outputs[i]]]

remove_all(L) == Quiet([L EXCEPT !.outputs = <<>>])

\* Logger.remove_output_type
remove_output_type_exact(L, output_type) ==
  Quiet([L EXCEPT !.outputs =
           SelectSeq(@, LAMBDA output : TypeOf[output] # output_type)])

remove_output_type(L, output_type) ==
  Quiet([L EXCEPT !.outputs =
           SelectSeq(@, LAMBDA output : ~isinstance(output, output_type))])

\* type(output)
type(output) == TypeOf[output]

\* Logger.reset_output
reset_output_keep_others(L, output) ==
  add_output(
    [L EXCEPT !.outputs = SelectSeq(@, LAMBDA o : o # output)], output)

reset_output(L, output) ==
  add_output(remove_output_type(L, type(output)).self, output)

\* Logger.has_output_type
RECURSIVE has_output_type_from(_, _, _)
has_output_type_from(L, output_type, i) ==
  IF i > Len(L.outputs) THEN "False"
  ELSE IF isinstance(L.outputs[i], output_type) THEN "True"
  ELSE has_output_type_from(L, output_type, i + 1)

has_output_type(L, output_type) ==
  Outcome(L, "none", has_output_type_from(L, output_type, 1),
          <<>>, <<>>, <<>>)

\* Logger.dump_output_type / Logger.dump_all: the for loop from entry i on,
\* over the outputs in `wanted`; acc carries the dump calls made so far.
RECURSIVE dump_loop(_, _, _, _, _)
dump_loop(L, wanted, step, i, acc) ==
  IF i > Len(L.outputs) THEN acc
  ELSE LET output == L.outputs[i]
           call == [output |-> output, step |-> step]
       IN  IF output \in wanted
           THEN IF dump_raises(output)
                THEN [acc EXCEPT !.dumps = Append(@, call),
                                 !.raised = "OSError"]
                ELSE dump_loop(L, wanted, step, i + 1,
                       [acc EXCEPT !.dumps = Append(@, call)])
           ELSE dump_loop(L, wanted, step, i + 1, acc)

\* Logger.dump_output_type
dump_output_type_exact(L, output_type, step) ==
  dump_loop(L, {output \in OutputObjects : TypeOf[output] = output_type},
            step, 1, Quiet(L))

dump_output_type(L, output_type, step) ==
  dump_loop(L, {output \in OutputObjects : isinstance(output, output_type)},
            step, 1, Quiet(L))

\* Logger.dump_all
dump_all(L, step) ==
  dump_loop(L, OutputObjects, step, 1, Quiet(L))

\* Logger.push_prefix
push_prefix_stale(L, prefix) ==
  Quiet([L EXCEPT !.prefixes = Append(@, prefix)])

push_prefix(L, prefix) ==
  LET ps == Append(L.prefixes, prefix)
  IN  Quiet([L EXCEPT !.prefixes = ps, !.prefix_str = join(ps)])

\* Logger.pop_prefix: `del self._prefixes[-1]` raises IndexError on [].
pop_prefix_stale(L) ==
  IF L.prefixes = <<>> THEN Raise(L, "IndexError")
  ELSE Quiet([L EXCEPT !.prefixes = SubSeq(@, 1, Len(@) - 1)])

pop_prefix_silent(L) ==
  IF L.prefixes = <<>> THEN Quiet(L)
  ELSE LET ps == SubSeq(L.prefixes, 1, Len(L.prefixes) - 1)
       IN  Quiet([L EXCEPT !.prefixes = ps, !.prefix_str = join(ps)])

pop_prefix(L) ==
  IF L.prefixes = <<>> THEN Raise(L, "IndexError")
  ELSE LET ps == SubSeq(L.prefixes, 1, Len(L.prefixes) - 1)
       IN  Quiet([L EXCEPT !.prefixes = ps, !.prefix_str = join(ps)])

\* Logger.prefix, up to the yield.
prefix_enter(L, prefix) == push_prefix(L, prefix)

\* Logger.prefix, after the yield: the finally clause pops whether the body
\* returned ("normal") or raised ("exception"); an exception of the body
\* propagates unless the pop itself raises.
prefix_exit_no_finally(L, how) ==
  IF how = "exception" THEN Raise(L, "BodyException") ELSE pop_prefix(L)

prefix_exit(L, how) ==
  LET r == pop_prefix(L)
  IN  IF r.raised = "none" /\ how = "exception"
      THEN [r EXCEPT !.raised = "BodyException"]
      ELSE r

\* Logger.disable_warnings
do_disable_warnings(L) == Quiet([L EXCEPT !.disable_warnings = TRUE])

\* ------------------------------------------------------------ CsvOutput

\* The keys and values given to CsvOutput.record.  The values are written
\* as Python literals: the int 1 and the str 'z'.
CsvKeys == {"x", "y"}
CsvValues == {"1", "'z'"}

\* str(value), as csv.writer writes a cell.
py_str(value) == IF value = "'z'" THEN "z" ELSE value

\* Where the hashes of this process put the strings "x" and "y" in a
\* set's table: in different slots (iterated x first, or y first), or in
\* the same slot, the key inserted second moving to a later or to an
\* earlier slot.
HashLayouts == {"xy", "yx", "insertion", "reversed"}

Range(s) == {s[i] : i \in 1..Len(s)}
Reverse(s) == [i \in 1..Len(s) |-> s[Len(s) + 1 - i]]

\* set(keys) for keys in insertion order without repetition: the set,
\* given as the sequence in which it is iterated and printed.
py_set(keys, layout) ==
  IF Len(keys) <= 1 \/ layout = "insertion" THEN keys
  ELSE IF layout = "reversed" THEN Reverse(keys)
  ELSE IF (layout = "xy") = (keys[1] = "x") THEN keys
  ELSE Reverse(keys)

\* TabularInput: a dict of key -> value in insertion order.
tabular_record(tabular, key, value) ==
  IF \E i \in 1..Len(tabular) : tabular[i].key = key
  THEN [i \in 1..Len(tabular) |->
          IF tabular[i].key = key THEN [key |-> key, value |-> value]
          ELSE tabular[i]]
  ELSE Append(tabular, [key |-> key, value |-> value])

tabular_empty(tabular) == tabular = <<>>

\* str and scalar values are primitive and are exported as they are.
tabular_as_primitive_dict(tabular) ==
  [i \in 1..Len(tabular) |->
     [key |-> tabular[i].key, value |-> tabular[i].value]]

tabular_clear(tabular) == <<>>

\* dict.keys(), in insertion order.
dict_keys(d) == [i \in 1..Len(d) |-> d[i].key]

\* d[key] for a key of d.
dict_get(d, key) == d[CHOOSE i \in 1..Len(d) : d[i].key = key].value

\* CsvOutput.__init__; `fieldnames` is <<>> while _fieldnames is None and
\* `writer` is FALSE while _writer is None.
CsvInit ==
  [writer |-> FALSE, fieldnames |-> <<>>, warned_once |-> {},
   disable_warnings |-> FALSE, tabular |-> <<>>]

\* What a call of a CsvOutput method did: the sink after it, the lines it
\* wrote to the file, the messages passed to _warn and those given to
\* warnings.warn.
CsvOutcome(S, lines, wcalls, emits) ==
  [self |-> S, written |-> lines, warn_calls |-> wcalls, emitted |-> emits]

\* CsvOutput.record
csv_record(S, key, value) ==
  CsvOutcome([S EXCEPT !.tabular = tabular_record(@, key, value)],
             <<>>, <<>>, <<>>)

\* CsvOutput._warn
csv_warn(S, msg) ==
  [self |-> [S EXCEPT !.warned_once = @ \cup {msg}],
   emit |-> ~S.disable_warnings /\ msg \notin S.warned_once]

\* The text of the inconsistent-keys warning: fixed words around the
\* printed forms of set(self._fieldnames) and set(to_csv.keys()).
InconsistentMsg(fieldnames, keys, layout) ==
  [fields |-> fieldnames, keys |-> py_set(keys, layout)]

\* DictWriter.writerow with extrasaction='ignore' and restval='': one cell
\* per field name, empty where the dict has no such key.
writerow(fieldnames, to_csv) ==
  [kind |-> "row",
   row |-> [k \in Range(fieldnames) |->
              IF k \in Range(dict_keys(to_csv))
              THEN py_str(dict_get(to_csv, k)) ELSE ""]]

writeheader(fieldnames) == [kind |-> "header", fieldnames |-> fieldnames]

\* The part of CsvOutput.dump after the two early returns.
csv_dump_write(S, to_csv, layout, renew, clear) ==
  LET keys == dict_keys(to_csv)
      S1 == IF renew
            THEN [S EXCEPT !.fieldnames = py_set(keys, layout),
                           !.writer = TRUE]
            ELSE S
      header == IF renew THEN <<writeheader(S1.fieldnames)>> ELSE <<>>
      differ == Range(keys) # Range(S1.fieldnames)
      msg == InconsistentMsg(S1.fieldnames, keys, layout)
      w == IF differ THEN csv_warn(S1, msg) ELSE [self |-> S1, emit |-> FALSE]
      S2 == IF clear
            THEN [w.self EXCEPT !.tabular = tabular_clear(@)]
            ELSE w.self
  IN  CsvOutcome(S2,
                 header \o <<writerow(S1.fieldnames, to_csv)>>,
                 IF differ THEN <<msg>> ELSE <<>>,
                 IF w.emit THEN <<msg>> ELSE <<>>)

\* CsvOutput.dump
csv_dump_reheader(S, layout) ==
  IF tabular_empty(S.tabular) THEN CsvOutcome(S, <<>>, <<>>, <<>>)
  ELSE csv_dump_write(S, tabular_as_primitive_dict(S.tabular), layout,
                      TRUE, TRUE)

csv_dump_no_empty_check(S, layout) ==
  LET to_csv == tabular_as_primitive_dict(S.tabular)
  IN  IF dict_keys(to_csv) = <<>> /\ ~S.writer
      THEN CsvOutcome(S, <<>>, <<>>, <<>>)
      ELSE csv_dump_write(S, to_csv, layout, ~S.writer, TRUE)

csv_dump_no_clear(S, layout) ==
  IF tabular_empty(S.tabular) THEN CsvOutcome(S, <<>>, <<>>, <<>>)
  ELSE csv_dump_write(S, tabular_as_primitive_dict(S.tabular), layout,
                      ~S.writer, FALSE)

csv_dump(S, layout) ==
  IF tabular_empty(S.tabular) THEN CsvOutcome(S, <<>>, <<>>, <<>>)
  ELSE LET to_csv == tabular_as_primitive_dict(S.tabular)
       IN  IF dict_keys(to_csv) = <<>> /\ ~S.writer
           THEN CsvOutcome(S, <<>>, <<>>, <<>>)
           ELSE csv_dump_write(S, to_csv, layout, ~S.writer, TRUE)

\* CsvOutput.disable_warnings
csv_disable_warnings(S) ==
  CsvOutcome([S EXCEPT !.disable_warnings = TRUE], <<>>, <<>>, <<>>)

\* A CsvOutput just constructed, in a process with the given hash layout.
CsvStart(layout) ==
  /\ csv = CsvInit
  /\ hash_layout = layout
  /\ csv_pre = [sink |-> CsvInit, log |-> <<>>, seen |-> {}]
  /\ csv_op = [name |-> "__init__", key |-> "-", value |-> "-"]
  /\ csv_written = <<>>
  /\ csv_warn_calls = <<>>
  /\ csv_emitted = <<>>
  /\ csv_log = <<>>
  /\ csv_seen = {}
  /\ csv_headers = 0

\* -------------------------------------------------------------- actions
\* A `with logger.prefix(p)` block: p, and the prefix stack and prefix string
\* of the Logger when the block was entered.
Scope(L, p) ==
  [prefix |-> p, entry |-> L.prefixes, entry_str |-> L.prefix_str]

NoScope == [prefix |-> <<>>, entry |-> <<>>, entry_str |-> <<>>]

Min(a, b) == IF a < b THEN a ELSE b

Occurrences(seq, x) == Cardinality({i \in 1..Len(seq) : seq[i] = x})

Operation(name, x, key) == [name |-> name, x |-> x, key |-> key]

\* One call of a Logger method by the application: `r` is what the method
\* did, `o` names the call.
Call(o, r) ==
  /\ pre' = Self
  /\ op' = o
  /\ outputs' = r.self.outputs
  /\ prefixes' = r.self.prefixes
  /\ prefix_str' = r.self.prefix_str
  /\ warned_once' = r.self.warned_once
  /\ disable_warnings' = r.self.disable_warnings
  /\ raised' = r.raised
  /\ ret' = r.ret
  /\ calls' = r.calls
  /\ warn_calls' = r.warn_calls
  /\ emitted' = r.emitted
  /\ emit_count' =
       [m \in Messages |->
          Min(EmitCap, emit_count[m] + Occurrences(r.emitted, m))]
  /\ dumps' = r.dumps
  /\ closes' = r.closes
  /\ UNCHANGED broken
  /\ UNCHANGED csv_vars

\* A Logger just constructed; B are the outputs (registered later, if ever)
\* whose record and dump raise.
LoggerStart(B) ==
  /\ outputs = LoggerInit.outputs
  /\ prefixes = LoggerInit.prefixes
  /\ prefix_str = LoggerInit.prefix_str
  /\ warned_once = LoggerInit.warned_once
  /\ disable_warnings = LoggerInit.disable_warnings
  /\ scopes = <<>>
  /\ left = NoScope
  /\ pre = LoggerInit
  /\ op = Operation("__init__", "-", <<>>)
  /\ raised = "none"
  /\ ret = "None"
  /\ calls = <<>>
  /\ warn_calls = <<>>
  /\ emitted = <<>>
  /\ emit_count = [m \in Messages |-> 0]
  /\ dumps = <<>>
  /\ closes = <<>>
  /\ broken = B

StartWith(B) == LoggerStart(B) /\ CsvStart("xy")

Init == StartWith({})

\* logger.logkv(key, value) with the key and value drawn from K and V.
LogkvOf(K, V) ==
  \E key \in K, value \in V :
    /\ Call(Operation("logkv", value, key), logkv(Self, key, value))
    /\ UNCHANGED scopes
    /\ left' = NoScope

\* logger.log(value) with the value drawn from V.
LogOf(V) ==
  \E value \in V :
    /\ Call(Operation("log", value, <<>>), log(Self, value))
    /\ UNCHANGED scopes
    /\ left' = NoScope

Logkv == LogkvOf(Keys, Values)

Log == LogOf(Values)

AddOutputOf(X) ==
  \E x \in X :
    /\ x \in OutputObjects => Len(outputs) < MaxOutputs
    /\ Call(Operation("add_output", x, <<>>), add_output(Self, x))
    /\ UNCHANGED scopes
    /\ left' = NoScope

AddOutput == AddOutputOf(OutputObjects \cup TypeObjects \cup OtherObjects)

RemoveAll ==
  /\ Call(Operation("remove_all", "-", <<>>), remove_all(Self))
  /\ UNCHANGED scopes
  /\ left' = NoScope

RemoveOutputTypeOf(Ts) ==
  \E T \in Ts :
    /\ Call(Operation("remove_output_type", T, <<>>),
            remove_output_type(Self, T))
    /\ UNCHANGED scopes
    /\ left' = NoScope

RemoveOutputType == RemoveOutputTypeOf(OutputTypes)

ResetOutputOf(X) ==
  \E x \in X :
    /\ Len(outputs) <= MaxOutputs
    /\ Call(Operation("reset_output", x, <<>>), reset_output(Self, x))
    /\ UNCHANGED scopes
    /\ left' = NoScope

ResetOutput == ResetOutputOf(OutputObjects \cup TypeObjects \cup OtherObjects)

HasOutputTypeOf(Ts) ==
  \E T \in Ts :
    /\ Call(Operation("has_output_type", T, <<>>), has_output_type(Self, T))
    /\ UNCHANGED scopes
    /\ left' = NoScope

HasOutputType == HasOutputTypeOf(OutputTypes)

PushPrefixOf(P) ==
  \E p \in P :
    /\ Len(prefixes) < MaxPrefixes
    /\ Call(Operation("push_prefix", "-", p), push_prefix(Self, p))
    /\ UNCHANGED scopes
    /\ left' = NoScope

PushPrefix == PushPrefixOf(PrefixStrings)

PopPrefix ==
  /\ Call(Operation("pop_prefix", "-", <<>>), pop_prefix(Self))
  /\ UNCHANGED scopes
  /\ left' = NoScope

\* `with logger.prefix(p):` is entered.
PrefixEnterOf(P) ==
  \E p \in P :
    /\ Len(prefixes) < MaxPrefixes
    /\ Len(scopes) < MaxScopes
    /\ Call(Operation("prefix_enter", "-", p), prefix_enter(Self, p))
    /\ scopes' = Append(scopes, Scope(Self, p))
    /\ left' = NoScope

PrefixEnter == PrefixEnterOf(PrefixStrings)

\* The innermost `with logger.prefix(p):` is left, its body having returned
\* or raised.
PrefixExit ==
  \E how \in {"normal", "exception"} :
    /\ scopes # <<>>
    /\ Call(Operation("prefix_exit", how, scopes[Len(scopes)].prefix),
            prefix_exit(Self, how))
    /\ scopes' = SubSeq(scopes, 1, Len(scopes) - 1)
    /\ left' = scopes[Len(scopes)]

Steps == {"None", "1"}

DumpAllOf(S) ==
  \E step \in S :
    /\ Call(Operation("dump_all", "-", <<step>>), dump_all(Self, step))
    /\ UNCHANGED scopes
    /\ left' = NoScope

DumpAll == DumpAllOf(Steps)

DumpOutputTypeOf(Ts, S) ==
  \E T \in Ts, step \in S :
    /\ Call(Operation("dump_output_type", T, <<step>>),
            dump_output_type(Self, T, step))
    /\ UNCHANGED scopes
    /\ left' = NoScope

DumpOutputType == DumpOutputTypeOf(OutputTypes, Steps)

DisableWarnings ==
  /\ Call(Operation("disable_warnings", "-", <<>>), do_disable_warnings(Self))
  /\ UNCHANGED scopes
  /\ left' = NoScope

\* The output registry, dispatch and warnings.
Next ==
  \/ Logkv
  \/ Log
  \/ AddOutput
  \/ RemoveAll
  \/ RemoveOutputType
  \/ ResetOutput
  \/ HasOutputType
  \/ DisableWarnings

Spec == Init /\ [][Next]_vars

\* The prefix stack, under a Logger that has one output registered and logs
\* one kind of record.
InitPrefix ==
  LET r == add_output(LoggerInit, "a1")
  IN  /\ outputs = r.self.outputs
      /\ prefixes = r.self.prefixes
      /\ prefix_str = r.self.prefix_str
      /\ warned_once = r.self.warned_once
      /\ disable_warnings = r.self.disable_warnings
      /\ scopes = <<>>
      /\ left = NoScope
      /\ pre = LoggerInit
      /\ op = Operation("add_output", "a1", <<>>)
      /\ raised = r.raised
      /\ ret = r.ret
      /\ calls = r.calls
      /\ warn_calls = r.warn_calls
      /\ emitted = r.emitted
      /\ emit_count = [m \in Messages |-> 0]
      /\ dumps = r.dumps
      /\ closes = r.closes
      /\ broken = {}
      /\ CsvStart("xy")

NextPrefix ==
  \/ PushPrefix
  \/ PopPrefix
  \/ PrefixEnter
  \/ PrefixExit
  \/ LogkvOf({<<"a", "x">>}, {"s"})
  \/ LogOf({"s"})

SpecPrefix == InitPrefix /\ [][NextPrefix]_vars

\* A Logger that never gets an output registered.
NextEmpty ==
  \/ Logkv
  \/ Log
  \/ PushPrefix
  \/ PopPrefix
  \/ DisableWarnings

SpecEmpty == Init /\ [][NextEmpty]_vars

\* Registering, removing and dumping outputs.
NextDump ==
  \/ AddOutput
  \/ RemoveOutputType
  \/ DumpAll
  \/ DumpOutputType

SpecDump == Init /\ [][NextDump]_vars

\* Outputs that fail: one of the output objects raises OSError from record
\* and from dump whenever it is called.
InitFail == \E o \in OutputObjects : StartWith({o})

NextFail ==
  \/ AddOutput
  \/ Logkv
  \/ Log
  \/ DumpAll
  \/ DumpOutputType

SpecFail == InitFail /\ [][NextFail]_vars

\* Every operation of the Logger, each with one or two arguments.
NextFrame ==
  \/ LogkvOf({<<"a", "x">>}, {"s"})
  \/ LogOf({"t"})
  \/ AddOutputOf({"a1", "str1"})
  \/ RemoveAll
  \/ RemoveOutputTypeOf({"A"})
  \/ ResetOutputOf({"a1"})
  \/ HasOutputTypeOf({"A"})
  \/ DumpAllOf({"1"})
  \/ DumpOutputTypeOf({"A"}, {"1"})
  \/ PushPrefixOf({<<"a">>})
  \/ PopPrefix
  \/ PrefixEnterOf({<<"a">>})
  \/ PrefixExit

SpecFrame == Init /\ [][NextFrame]_vars

\* The lines of kind k among those the last CsvOutput call wrote.
Written(k) == SelectSeq(csv_written, LAMBDA l : l.kind = k)

\* One call of a CsvOutput method by the application.
CsvCall(o, r) ==
  LET wrote == \E i \in 1..Len(r.written) : r.written[i].kind = "row"
      keyset == Range(dict_keys(csv.tabular))
  IN  /\ csv_pre' = [sink |-> csv, log |-> csv_log, seen |-> csv_seen]
      /\ csv_op' = o
      /\ csv' = r.self
      /\ csv_written' = r.written
      /\ csv_warn_calls' = r.warn_calls
      /\ csv_emitted' = r.emitted
      /\ csv_log' =
           IF o.name = "record"
           THEN Append(csv_log, [key |-> o.key, value |-> o.value])
           ELSE IF wrote THEN <<>> ELSE csv_log
      /\ csv_seen' =
           IF wrote /\ csv.writer /\ keyset # Range(csv.fieldnames)
           THEN csv_seen \cup {keyset} ELSE csv_seen
      /\ csv_headers' =
           csv_headers
             + Len(SelectSeq(r.written, LAMBDA l : l.kind = "header"))
      /\ UNCHANGED hash_layout
      /\ UNCHANGED logger_vars

CsvRecord ==
  \E key \in CsvKeys, value \in CsvValues :
    /\ Len(csv_log) < MaxRecords
    /\ CsvCall([name |-> "record", key |-> key, value |-> value],
               csv_record(csv, key, value))

CsvDump ==
  CsvCall([name |-> "dump", key |-> "-", value |-> "-"],
          csv_dump(csv, hash_layout))

CsvDisableWarnings ==
  /\ ~csv.disable_warnings
  /\ CsvCall([name |-> "disable_warnings", key |-> "-", value |-> "-"],
             csv_disable_warnings(csv))

InitCsv ==
  /\ LoggerStart({})
  /\ \E layout \in HashLayouts : CsvStart(layout)

NextCsv ==
  \/ CsvRecord
  \/ CsvDump
  \/ CsvDisableWarnings

SpecCsv == InitCsv /\ [][NextCsv]_vars

\* ---------------------------------------------------------------- claims
IsLogCall == op.name \in {"logkv", "log"}

\* Entry i of the outputs registered before the last operation takes the
\* logged value by its type and the key by its pattern.
TypeTaken(i) ==
  \E T \in types_accepted(pre.outputs[i]) : T \in Mro(TypeOf[op.x])

KeyTaken(i) == re_match(keys_accepted(pre.outputs[i]), op.key)

TakingEntries == {i \in 1..Len(pre.outputs) : TypeTaken(i) /\ KeyTaken(i)}

CalledOutputs == [i \in 1..Len(calls) |-> calls[i].output]

\* C1: logkv(key, value) calls record(key, value) once for each entry of the
\* registered outputs whose types_accepted takes the value's type and whose
\* keys_accepted matches the key, in registration order, and on no other
\* output.
C1_DispatchToMatchingOutputs ==
  IsLogCall =>
    /\ CalledOutputs =
         SelectSeq(pre.outputs,
                   LAMBDA o :
                     /\ \E T \in types_accepted(o) : T \in Mro(TypeOf[op.x])
                     /\ re_match(keys_accepted(o), op.key))
    /\ Len(calls) = Cardinality(TakingEntries)
    /\ \A i \in 1..Len(calls) :
         calls[i].key = op.key /\ calls[i].value = op.x

\* An output that takes the type but not the key got nothing, the one after
\* it got the record.
C1_Witness ==
  /\ op.name = "logkv"
  /\ Len(pre.outputs) = 2
  /\ TypeTaken(1) /\ ~KeyTaken(1)
  /\ Len(calls) = 1
  /\ calls[1].output = pre.outputs[2]

\* C2: the prefix string is the concatenation of the prefix stack in stack
\* order, after every push, pop (failed or not), scope entry or exit and
\* logging call.
C2_PrefixStrIsJoinedStack == prefix_str = join(prefixes)

\* A pop that left one of two prefixes on the stack.
C2_Witness ==
  /\ op.name = "pop_prefix"
  /\ raised = "none"
  /\ Len(pre.prefixes) = 2
  /\ prefix_str = pre.prefixes[1]
  /\ prefix_str # pre.prefix_str

\* C3: pop_prefix removes the top of the prefix stack only; on an empty
\* stack it raises IndexError and the stack and the prefix string stay empty.
C3_PopPrefix ==
  op.name = "pop_prefix" =>
    IF pre.prefixes = <<>>
    THEN /\ raised = "IndexError"
         /\ prefixes = <<>>
         /\ prefix_str = <<>>
    ELSE /\ raised = "none"
         /\ Append(prefixes, pre.prefixes[Len(pre.prefixes)]) = pre.prefixes
         /\ prefix_str = join(prefixes)

\* pop_prefix on the empty stack.
C3_Witness ==
  /\ op.name = "pop_prefix"
  /\ pre.prefixes = <<>>
  /\ raised = "IndexError"

\* The block just left had a body that left the stack as it found it.
BodyBalanced == pre.prefixes = Append(left.entry, left.prefix)

\* C4: prefix(p) pushes p on entry and pops on exit, whether the body
\* returned or raised; leaving a block whose body left the stack balanced
\* restores the prefix stack and string of before the block.
C4_ScopedPrefixRestores ==
  /\ op.name = "prefix_enter" => prefixes = Append(pre.prefixes, op.key)
  /\ op.name = "prefix_exit" =>
       /\ pre.prefixes # <<>> => Len(prefixes) = Len(pre.prefixes) - 1
       /\ BodyBalanced =>
            /\ prefixes = left.entry
            /\ prefix_str = left.entry_str

\* An inner block, entered with a prefix already on the stack, is left by an
\* exception while its outer block is still active.
C4_Witness ==
  /\ op.name = "prefix_exit"
  /\ op.x = "exception"
  /\ scopes # <<>>
  /\ left.entry # <<>>
  /\ BodyBalanced
  /\ prefixes = left.entry

\* C5: add_output(x) raises ValueError and changes nothing when x is a type
\* or not a LogOutput; otherwise it appends x, registered already or not.
C5_AddOutput ==
  op.name = "add_output" =>
    IF op.x \in TypeObjects \cup OtherObjects
    THEN raised = "ValueError" /\ Self = pre
    ELSE /\ raised = "none"
         /\ outputs = Append(pre.outputs, op.x)
         /\ Self = [pre EXCEPT !.outputs = outputs]

\* A class passed instead of an instance, with an output registered.
C5_Witness ==
  /\ op.name = "add_output"
  /\ op.x \in TypeObjects
  /\ raised = "ValueError"
  /\ outputs # <<>>

OfVariant(seq, T) == {i \in 1..Len(seq) : T \in Mro(TypeOf[seq[i]])}

\* C6: after reset_output(o) with a valid o, o is the only registered output
\* of its variant and is last, the outputs of other variants are the ones
\* of before in their order, and a second reset_output(o) changes nothing.
C6_ResetOutput ==
  (op.name = "reset_output" /\ op.x \in OutputObjects) =>
    /\ raised = "none"
    /\ outputs # <<>>
    /\ OfVariant(outputs, TypeOf[op.x]) = {Len(outputs)}
    /\ outputs[Len(outputs)] = op.x
    /\ SubSeq(outputs, 1, Len(outputs) - 1) =
         SelectSeq(pre.outputs, LAMBDA o : TypeOf[op.x] \notin Mro(TypeOf[o]))
    /\ reset_output(Self, op.x).self.outputs = outputs

\* Another instance of o's variant was registered and removed, an output of
\* another variant stayed.
C6_Witness ==
  /\ op.name = "reset_output"
  /\ op.x \in OutputObjects
  /\ \E i \in OfVariant(pre.outputs, TypeOf[op.x]) : pre.outputs[i] # op.x
  /\ Len(outputs) >= 2

\* C7: remove_output_type(T) deletes every output of variant T and keeps the
\* rest in order, so has_output_type(T) is false right after it.
C7_RemoveOutputType ==
  op.name = "remove_output_type" =>
    /\ raised = "none"
    /\ outputs = SelectSeq(pre.outputs, LAMBDA o : op.x \notin Mro(TypeOf[o]))
    /\ OfVariant(outputs, op.x) = {}
    /\ has_output_type(Self, op.x).ret = "False"

\* Something was removed and something stayed.
C7_Witness ==
  /\ op.name = "remove_output_type"
  /\ OfVariant(pre.outputs, op.x) # {}
  /\ outputs # <<>>
  /\ has_output_type(pre, op.x).ret = "True"

UnacceptedHere == UnacceptedMsg(TypeOf[op.x])

InSeq(seq, x) == \E i \in 1..Len(seq) : seq[i] = x

\* C8: no message is given to warnings.warn twice in the Logger's life; with
\* warnings enabled, a value no output takes is warned about on its first
\* occurrence and on no later one.
C8_WarnOnce ==
  /\ \A m \in Messages :
       /\ emit_count[m] <= 1
       /\ emit_count[m] = 1 => m \in warned_once
       /\ (m \in warned_once /\ ~disable_warnings) => emit_count[m] = 1
       /\ Occurrences(emitted, m) <= 1
  /\ (IsLogCall /\ calls = <<>> /\ ~pre.disable_warnings) =>
       (InSeq(emitted, UnacceptedHere) <=>
          UnacceptedHere \notin pre.warned_once)

\* The second time a value nobody takes is logged: nothing is emitted.
C8_Witness ==
  /\ IsLogCall
  /\ calls = <<>>
  /\ pre.outputs # <<>>
  /\ ~disable_warnings
  /\ UnacceptedHere \in pre.warned_once
  /\ emitted = <<>>
  /\ emit_count[UnacceptedHere] = 1

\* C9: logkv passes the unaccepted-value message to _warn exactly when no
\* registered output took the value, and the outputs that match are all
\* called whatever has been warned.
C9_UnacceptedWarning ==
  IsLogCall =>
    /\ InSeq(warn_calls, UnacceptedHere) <=> TakingEntries = {}
    /\ Occurrences(warn_calls, UnacceptedHere) <= 1
    /\ InSeq(emitted, UnacceptedHere) <=>
         /\ TakingEntries = {}
         /\ ~pre.disable_warnings
         /\ UnacceptedHere \notin pre.warned_once
    /\ TakingEntries # {} => Len(calls) = Cardinality(TakingEntries)
    /\ raised = "none"

\* The first output took the value, the second did not: no warning.
C9_Witness ==
  /\ op.name = "logkv"
  /\ Len(pre.outputs) = 2
  /\ TakingEntries = {1}
  /\ warn_calls = <<>>
  /\ Len(calls) = 1

\* C10: with no outputs registered, logkv and log return normally, pass the
\* no-outputs message to _warn (emitted the first time, warnings enabled),
\* and leave the outputs and the prefix stack as they were.
C10_NoOutputs ==
  (IsLogCall /\ pre.outputs = <<>>) =>
    /\ raised = "none"
    /\ calls = <<>>
    /\ outputs = pre.outputs
    /\ prefixes = pre.prefixes /\ prefix_str = pre.prefix_str
    /\ Occurrences(warn_calls, NoOutputsMsg) = 1
    /\ NoOutputsMsg \in warned_once
    /\ InSeq(emitted, NoOutputsMsg) <=>
         (~pre.disable_warnings /\ NoOutputsMsg \notin pre.warned_once)
    /\ emit_count[NoOutputsMsg] <= 1

\* log(value) under a pushed prefix, the no-outputs warning emitted.
C10_Witness ==
  /\ op.name = "log"
  /\ pre.outputs = <<>>
  /\ prefixes # <<>>
  /\ InSeq(emitted, NoOutputsMsg)

IsDumpCall == op.name \in {"dump_all", "dump_output_type"}

DumpedOutputs == [i \in 1..Len(dumps) |-> dumps[i].output]

\* C11: dump_all(step) calls dump(step) once on every registered entry, in
\* registration order; dump_output_type(T, step) calls dump(step) once on
\* each entry of variant T, in registration order, and on no other.
C11_DumpInRegistrationOrder ==
  /\ op.name = "dump_all" => DumpedOutputs = pre.outputs
  /\ op.name = "dump_output_type" =>
       DumpedOutputs =
         SelectSeq(pre.outputs, LAMBDA o : op.x \in Mro(TypeOf[o]))
  /\ IsDumpCall =>
       /\ raised = "none"
       /\ \A i \in 1..Len(dumps) : dumps[i].step = op.key[1]
  /\ ~IsDumpCall => dumps = <<>>

\* dump_output_type skipped the first entry, of another variant, and dumped
\* the second with the step it was given.
C11_Witness ==
  /\ op.name = "dump_output_type"
  /\ Len(pre.outputs) = 2
  /\ op.x \notin Mro(TypeOf[pre.outputs[1]])
  /\ Len(dumps) = 1
  /\ dumps[1] = [output |-> pre.outputs[2], step |-> "1"]

\* The entries a dump call selects.
DumpEntries ==
  {i \in 1..Len(pre.outputs) :
     op.name = "dump_output_type" => op.x \in Mro(TypeOf[pre.outputs[i]])}

\* The entries the last operation has to call, in order.
DueEntries ==
  IF IsLogCall THEN TakingEntries
  ELSE IF IsDumpCall THEN DumpEntries
  ELSE {}

FailingEntries == {i \in DueEntries : pre.outputs[i] \in broken}

FirstFailing == CHOOSE i \in FailingEntries : \A j \in FailingEntries : i <= j

MadeCalls == IF IsLogCall THEN CalledOutputs ELSE DumpedOutputs

RECURSIVE EntriesUpTo(_, _)
EntriesUpTo(i, k) ==
  IF i > k THEN <<>>
  ELSE IF i \in DueEntries
       THEN <<pre.outputs[i]>> \o EntriesUpTo(i + 1, k)
       ELSE EntriesUpTo(i + 1, k)

\* C18: when an output's record or dump raises, the operation raises it to
\* the caller, the due outputs before the failing one have been called, the
\* ones after it are not, and the Logger's fields are as before the call.
C18_SinkFailurePropagates ==
  (IsLogCall \/ IsDumpCall) =>
    IF FailingEntries = {}
    THEN raised = "none"
    ELSE /\ raised = "OSError"
         /\ MadeCalls = EntriesUpTo(1, FirstFailing)
         /\ Self = pre

\* logkv: the first of two matching outputs raised, the second was not
\* called.
C18_Witness ==
  /\ op.name = "logkv"
  /\ raised = "OSError"
  /\ TakingEntries = {1, 2}
  /\ FirstFailing = 1
  /\ Len(calls) = 1

\* C15: once disable_warnings has been called nothing is given to
\* warnings.warn any more, and no operation clears the flag.
C15_DisableWarningsLatch ==
  /\ pre.disable_warnings => (disable_warnings /\ emitted = <<>>)
  /\ op.name = "disable_warnings" => (disable_warnings /\ emitted = <<>>)
  /\ disable_warnings => emitted = <<>>

\* With warnings disabled, a value no output takes is logged for the first
\* time: _warn is called and emits nothing.
C15_Witness ==
  /\ IsLogCall
  /\ pre.disable_warnings
  /\ pre.outputs # <<>>
  /\ UnacceptedHere \notin pre.warned_once
  /\ InSeq(warn_calls, UnacceptedHere)
  /\ emitted = <<>>

\* C16: every record call of logkv / log carries the concatenation of the
\* prefix stack as it is at the call: the composed prefix inside a prefix
\* block, the prefix without the block's part after it.
C16_RecordCarriesPrefix ==
  IsLogCall =>
    /\ calls # <<>>
    /\ \A i \in 1..Len(calls) : calls[i].prefix = join(pre.prefixes)

\* Logged inside a block, under two different prefixes.
C16_Witness ==
  /\ IsLogCall
  /\ scopes # <<>>
  /\ Len(pre.prefixes) = 2
  /\ pre.prefixes[1] # pre.prefixes[2]
  /\ calls # <<>>
  /\ calls[1].prefix = pre.prefixes[1] \o pre.prefixes[2]

\* C19: a reset_output(x) that fails with ValueError leaves the registered
\* outputs as they were.
C19_FailedResetKeepsOutputs ==
  (op.name = "reset_output" /\ raised = "ValueError") =>
    outputs = pre.outputs

MutatingRegistry ==
  op.name \in {"add_output", "remove_all", "remove_output_type",
               "reset_output"}

IsCsvDump == csv_op.name = "dump"

\* The key set buffered when the last CsvOutput call began.
PreKeys == Range(dict_keys(csv_pre.sink.tabular))

LogKeys(records) == {records[i].key : i \in 1..Len(records)}

\* The value of the last record call for key k in the log.
Latest(records, k) ==
  LET last == CHOOSE i \in 1..Len(records) :
                /\ records[i].key = k
                /\ \A j \in (i + 1)..Len(records) : records[j].key # k
  IN  records[last].value

\* C12: the header set is established by the first dump with a non-empty
\* buffer, equals that buffer's key set, is written as the header line
\* exactly once, and no later record or dump changes it.
C12_HeaderFixedByFirstDump ==
  /\ csv_headers = (IF csv.writer THEN 1 ELSE 0)
  /\ csv_pre.sink.writer =>
       /\ csv.writer
       /\ csv.fieldnames = csv_pre.sink.fieldnames
       /\ Written("header") = <<>>
  /\ ~csv_pre.sink.writer =>
       IF IsCsvDump /\ csv_pre.sink.tabular # <<>>
       THEN /\ csv.writer
            /\ Range(csv.fieldnames) = PreKeys
            /\ Len(csv.fieldnames) = Cardinality(PreKeys)
            /\ Written("header") = <<writeheader(csv.fieldnames)>>
            /\ csv_written[1].kind = "header"
       ELSE /\ ~csv.writer
            /\ csv.fieldnames = <<>>
            /\ csv_written = <<>>

\* A dump of other keys than the header's, after the header was written.
C12_Witness ==
  /\ IsCsvDump
  /\ csv_pre.sink.writer
  /\ PreKeys # {}
  /\ PreKeys # Range(csv_pre.sink.fieldnames)
  /\ csv.fieldnames = csv_pre.sink.fieldnames
  /\ csv_headers = 1

\* C13: a dump of a non-empty buffer after the header is established whose
\* key set differs from the header set warns at most once per distinct
\* mismatched key set (exactly once the first time, warnings enabled) and
\* still writes a row; a dump of the header's key set does not warn.
C13_WarnOncePerKeySet ==
  (IsCsvDump /\ csv_pre.sink.writer /\ PreKeys # {}) =>
    IF PreKeys # Range(csv.fieldnames)
    THEN /\ Len(csv_emitted) <= 1
         /\ csv_emitted # <<>> => PreKeys \notin csv_pre.seen
         /\ (~csv_pre.sink.disable_warnings /\ PreKeys \notin csv_pre.seen)
              => Len(csv_emitted) = 1
         /\ Len(Written("row")) = 1
    ELSE csv_emitted = <<>>

\* C14 as stated: every dump call, whatever the state of the sink, appends
\* exactly one data row.
C14_OneRowPerDump ==
  IsCsvDump => Len(Written("row")) = 1

\* C14: a dump with a non-empty buffer appends exactly one data row, and a
\* dump with an empty buffer writes nothing.
C14_OneRowPerNonEmptyDump ==
  IsCsvDump =>
    IF csv_pre.sink.tabular = <<>>
    THEN csv_written = <<>>
    ELSE Len(Written("row")) = 1

\* A dump with an empty buffer, after rows were written.
C14_Witness ==
  /\ IsCsvDump
  /\ csv_pre.sink.writer
  /\ csv_pre.sink.tabular = <<>>
  /\ csv_written = <<>>

\* C17 as stated: the row holds, for each key recorded since the previous
\* written row, the value recorded last, and nothing recorded before.
C17_RowHoldsLatestValues ==
  (IsCsvDump /\ Written("row") # <<>>) =>
    LET row == Written("row")[1].row
    IN  /\ \A k \in LogKeys(csv_pre.log) :
             k \in DOMAIN row /\ row[k] = py_str(Latest(csv_pre.log, k))
        /\ \A k \in DOMAIN row \ LogKeys(csv_pre.log) : row[k] = ""

\* C17: the row has one cell per key of the header set: the value recorded
\* last since the previous written row, or nothing if the key was not
\* recorded since; a recorded key outside the header set is not written.
C17_RowHoldsLatestHeaderValues ==
  (IsCsvDump /\ Written("row") # <<>>) =>
    LET row == Written("row")[1].row
    IN  /\ DOMAIN row = Range(csv.fieldnames)
        /\ \A k \in DOMAIN row :
             row[k] = IF k \in LogKeys(csv_pre.log)
                      THEN py_str(Latest(csv_pre.log, k)) ELSE ""
        /\ csv.tabular = <<>>

\* A row written from a key recorded twice with different values and a key
\* that is not in the header.
C17_Witness ==
  /\ IsCsvDump
  /\ csv_pre.sink.writer
  /\ Written("row") # <<>>
  /\ LogKeys(csv_pre.log) \ Range(csv.fieldnames) # {}
  /\ \E i, j \in 1..Len(csv_pre.log) :
       /\ i < j
       /\ csv_pre.log[i].key = csv_pre.log[j].key
       /\ csv_pre.log[i].value # csv_pre.log[j].value
       /\ csv_pre.log[i].key \in Range(csv.fieldnames)
       /\ Written("row")[1].row[csv_pre.log[j].key]
            = py_str(csv_pre.log[j].value)

====
